---- MODULE Spec2Model ----
(***************************************************************************)
(* Rule-based video game recommender: the static catalog                   *)
(* (game_knowledge_base.py) and the recommendation engine                  *)
(* (recommendation_engine.py).                                             *)
(*                                                                         *)
(* Python dicts are modelled as sequences of <<key, value>> items in       *)
(* insertion order, Python lists as sequences, Python sets as sets whose   *)
(* iteration order is fixed per process by the string-hash seed.           *)
(* Relevance scores are kept in tenths (0.3 is 3, 1.0 is 10).              *)
(*                                                                         *)
(* Spec is a client that calls the catalog, the parser and the engine      *)
(* directly, as the test suite does; SessionSpec is the console program    *)
(* of main.py.                                                             *)
(***************************************************************************)
EXTENDS Integers, Sequences, FiniteSets, TLC

VARIABLES
    kb,        \* the GameKnowledgeBase instance: its five tables
    hashSeed,  \* the interpreter's string-hash seed, drawn once per process
    op,        \* the call that has just returned ("idle" between calls)
    args,      \* the arguments of that call
    ret,       \* the value that call returned
    prev,      \* the value the same call returned the time before (repeat calls)
    repeated,  \* TRUE when the call was a repeat of the previous one
    pc,        \* main.py: where the console program stands
    line,      \* main.py: the line last read at the main prompt
    validated_data, \* main.py: what parse_and_validate_input returned for it
    raised,    \* main.py: the step whose exception is being handled ("" if none)
    exited     \* main.py: <<>> while running, else <<exit status, cause>>

sessionVars == <<pc, line, validated_data, raised, exited>>

vars == <<kb, hashSeed, op, args, ret, prev, repeated, pc, line,
          validated_data, raised, exited>>

(***************************************************************************)
(* Bounds of the model.                                                    *)
(***************************************************************************)
MaxAge == 18
MaxGenres == 1
MaxExcluded == 4
MaxSeed == 1
MaxTokens == 3

(***************************************************************************)
(* game_knowledge_base.py: the tables built by __init__.                   *)
(***************************************************************************)
InitGenres ==
    << <<"RPG", <<"The Witcher 3", "Skyrim", "Final Fantasy XV", "Persona 5",
                  "Divinity: Original Sin 2">> >>,
       <<"Action", <<"Grand Theft Auto V", "Assassin's Creed Valhalla",
                     "Call of Duty: Modern Warfare", "Cyberpunk 2077">> >>,
       <<"Adventure", <<"The Legend of Zelda: Breath of the Wild", "Uncharted 4",
                        "Tomb Raider", "Life is Strange">> >>,
       <<"Strategy", <<"Civilization VI", "Total War: Warhammer III",
                       "Age of Empires IV", "Crusader Kings III">> >>,
       <<"Simulation", <<"The Sims 4", "Cities: Skylines",
                         "Euro Truck Simulator 2", "Farming Simulator 22">> >>,
       <<"Puzzle", <<"Portal 2", "Tetris Effect", "The Witness", "Baba is You">> >>,
       <<"Indie", <<"Hollow Knight", "Celeste", "Stardew Valley", "Among Us",
                    "Cuphead">> >>,
       <<"Horror", <<"Resident Evil Village", "Silent Hill", "Outlast",
                     "Amnesia: The Dark Descent">> >>,
       <<"Racing", <<"Forza Horizon 5", "Gran Turismo 7", "Mario Kart 8",
                     "Need for Speed Heat">> >>,
       <<"Sports", <<"FIFA 23", "NBA 2K23", "Rocket League",
                     "Tony Hawk's Pro Skater 1+2">> >> >>

InitAgeRatings ==
    << <<"The Witcher 3", 18>>, <<"Skyrim", 17>>, <<"Final Fantasy XV", 13>>,
       <<"Persona 5", 17>>, <<"Divinity: Original Sin 2", 17>>,
       <<"Grand Theft Auto V", 18>>, <<"Assassin's Creed Valhalla", 17>>,
       <<"Call of Duty: Modern Warfare", 17>>, <<"Cyberpunk 2077", 18>>,
       <<"The Legend of Zelda: Breath of the Wild", 10>>, <<"Uncharted 4", 13>>,
       <<"Tomb Raider", 17>>, <<"Life is Strange", 13>>,
       <<"Civilization VI", 10>>, <<"Total War: Warhammer III", 16>>,
       <<"Age of Empires IV", 10>>, <<"Crusader Kings III", 16>>,
       <<"The Sims 4", 12>>, <<"Cities: Skylines", 10>>,
       <<"Euro Truck Simulator 2", 3>>, <<"Farming Simulator 22", 3>>,
       <<"Portal 2", 10>>, <<"Tetris Effect", 3>>, <<"The Witness", 10>>,
       <<"Baba is You", 3>>, <<"Hollow Knight", 10>>, <<"Celeste", 10>>,
       <<"Stardew Valley", 10>>, <<"Among Us", 10>>, <<"Cuphead", 10>>,
       <<"Resident Evil Village", 18>>, <<"Silent Hill", 17>>, <<"Outlast", 18>>,
       <<"Amnesia: The Dark Descent", 17>>, <<"Forza Horizon 5", 3>>,
       <<"Gran Turismo 7", 3>>, <<"Mario Kart 8", 3>>,
       <<"Need for Speed Heat", 13>>, <<"FIFA 23", 3>>, <<"NBA 2K23", 3>>,
       <<"Rocket League", 3>>, <<"Tony Hawk's Pro Skater 1+2", 10>> >>

InitDifficulty ==
    << <<"easy", <<"The Sims 4", "Cities: Skylines", "Stardew Valley",
                   "Mario Kart 8", "FIFA 23", "Rocket League">> >>,
       <<"medium", <<"Skyrim", "The Legend of Zelda: Breath of the Wild",
                     "Uncharted 4", "Civilization VI", "Hollow Knight">> >>,
       <<"hard", <<"The Witcher 3", "Dark Souls", "Cuphead", "Celeste",
                   "Total War: Warhammer III">> >> >>

InitPopularity ==
    << <<"very_popular", <<"The Witcher 3", "Grand Theft Auto V", "Minecraft",
                           "Among Us", "Rocket League">> >>,
       <<"popular", <<"Skyrim", "The Legend of Zelda: Breath of the Wild",
                      "Stardew Valley", "Hollow Knight">> >>,
       <<"niche", <<"Divinity: Original Sin 2", "Crusader Kings III",
                    "The Witness", "Baba is You">> >> >>

InitPlatforms ==
    << <<"PC", <<"The Witcher 3", "Skyrim", "Civilization VI", "Cities: Skylines",
                 "Portal 2", "Hollow Knight">> >>,
       <<"PlayStation", <<"The Witcher 3", "Skyrim", "Uncharted 4",
                          "Gran Turismo 7", "Persona 5">> >>,
       <<"Xbox", <<"The Witcher 3", "Skyrim", "Forza Horizon 5", "Halo Infinite",
                   "Gears 5">> >>,
       <<"Nintendo", <<"The Legend of Zelda: Breath of the Wild", "Mario Kart 8",
                       "Super Mario Odyssey">> >>,
       <<"Mobile", <<"Among Us", "Candy Crush Saga", "Clash of Clans",
                     "Pokemon GO">> >> >>

\* GameKnowledgeBase.__init__: the instance after construction.
GameKnowledgeBase ==
    [genres |-> InitGenres, age_ratings |-> InitAgeRatings,
     difficulty |-> InitDifficulty, popularity |-> InitPopularity,
     platforms |-> InitPlatforms]

(***************************************************************************)
(* Python built-ins used by the code.                                      *)
(***************************************************************************)
\* None
None == "None"

\* The elements of a list, as a set.
Range(s) == {s[i] : i \in 1..Len(s)}

\* x in lst, for a list.
in_list(x, lst) == \E i \in 1..Len(lst) : lst[i] = x

\* dict.keys(), in insertion order.
dict_keys(d) == [i \in 1..Len(d) |-> d[i][1]]

\* dict.get(key, default)
dict_get(d, key, default) ==
    IF \E i \in 1..Len(d) : d[i][1] = key
    THEN d[CHOOSE i \in 1..Len(d) : d[i][1] = key][2]
    ELSE default

\* min(a, b)
min(a, b) == IF a <= b THEN a ELSE b

\* Every game name and genre label the program holds, in the order the
\* constructors first mention them.
InternedNames ==
    [i \in 1..Len(InitAgeRatings) |-> InitAgeRatings[i][1]]
    \o <<"Dark Souls", "Minecraft", "Halo Infinite", "Gears 5",
         "Super Mario Odyssey", "Candy Crush Saga", "Clash of Clans", "Pokemon GO">>
    \o dict_keys(InitGenres)

\* hash(str) under a seed: a different permutation of the strings for each
\* seed (the rotation and the direction depend on the seed).
str_hash(i, seed) ==
    LET n == Len(InternedNames)
        r == (i + 5 * seed) % n
    IN IF seed % 2 = 0 THEN r + 1 ELSE n - r

\* The slots of a hash table holding every string, per seed: slot h holds the
\* string whose hash is h.
HashSlots ==
    [seed \in 0..(MaxSeed + 1) |->
        [h \in 1..Len(InternedNames) |->
            InternedNames[CHOOSE i \in 1..Len(InternedNames) : str_hash(i, seed) = h]]]

\* Iterating a set of strings (for game in games): its elements in slot order.
set_iteration(S) ==
    LET member(name) == name \in S
    IN SelectSeq(HashSlots[hashSeed], member)

\* Variant: reverse=True left out, the list sorted by ascending score.
RECURSIVE sort_by_score_asc(_)
sort_by_score_asc(lst) ==
    IF lst = <<>> THEN <<>>
    ELSE LET rest == sort_by_score_asc(Tail(lst))
             x == Head(lst)
             k == Cardinality({i \in 1..Len(rest) :
                                  rest[i].relevance_score < x.relevance_score})
         IN SubSeq(rest, 1, k) \o <<x>> \o SubSeq(rest, k + 1, Len(rest))

\* list.sort(key=relevance_score, reverse=True): stable, so entries with equal
\* scores keep the order they had in the list.
RECURSIVE sort_by_score_desc(_)
sort_by_score_desc(lst) ==
    IF lst = <<>> THEN <<>>
    ELSE LET rest == sort_by_score_desc(Tail(lst))
             x == Head(lst)
             \* x goes before every later entry whose score is not higher
             k == Cardinality({i \in 1..Len(rest) :
                                  rest[i].relevance_score > x.relevance_score})
         IN SubSeq(rest, 1, k) \o <<x>> \o SubSeq(rest, k + 1, Len(rest))

(***************************************************************************)
(* game_knowledge_base.py: the queries.                                    *)
(***************************************************************************)
DefaultAgeRating == 18

get_games_by_genre(genre) == dict_get(kb.genres, genre, <<>>)

\* Variant: the bound compared strictly (min_age < age).
get_games_by_age_strict(age) ==
    LET suits(item) == item[2] < age
        suitable == SelectSeq(kb.age_ratings, suits)
    IN [i \in 1..Len(suitable) |-> suitable[i][1]]

get_games_by_age(age) ==
    LET suits(item) == item[2] <= age
        suitable == SelectSeq(kb.age_ratings, suits)
    IN [i \in 1..Len(suitable) |-> suitable[i][1]]

get_games_by_difficulty(difficulty_level) ==
    dict_get(kb.difficulty, difficulty_level, <<>>)

get_games_by_popularity(popularity_level) ==
    dict_get(kb.popularity, popularity_level, <<>>)

\* Variant: the loop variable returned after the loop (return genre).
get_game_genre_loop_variable(game) ==
    LET hits == {i \in 1..Len(kb.genres) : in_list(game, kb.genres[i][2])}
    IN IF hits = {} THEN kb.genres[Len(kb.genres)][1]
       ELSE kb.genres[CHOOSE i \in hits : \A j \in hits : i <= j][1]

get_game_genre(game) ==
    LET hits == {i \in 1..Len(kb.genres) : in_list(game, kb.genres[i][2])}
    IN IF hits = {} THEN None
       ELSE kb.genres[CHOOSE i \in hits : \A j \in hits : i <= j][1]

get_game_age_rating(game) == dict_get(kb.age_ratings, game, DefaultAgeRating)

get_all_genres == dict_keys(kb.genres)

get_all_games ==
    set_iteration(UNION {Range(kb.genres[i][2]) : i \in 1..Len(kb.genres)})

(***************************************************************************)
(* recommendation_engine.py                                                *)
(***************************************************************************)
\* Variant: the bound compared strictly (min_age < age).
query_age_appropriate_games_strict(age) ==
    {item[1] : item \in {it \in Range(kb.age_ratings) : it[2] < age}}

\* Variant: every game of the rating, difficulty and popularity tables is
\* asked for its rating with get_game_age_rating (18 when it has none).
query_age_appropriate_games_all_tables(age) ==
    LET listed(table) == UNION {Range(table[i][2]) : i \in 1..Len(table)}
        games == Range(dict_keys(kb.age_ratings))
                     \cup listed(kb.difficulty) \cup listed(kb.popularity)
    IN {game \in games : get_game_age_rating(game) <= age}

query_age_appropriate_games(age) ==
    {item[1] : item \in {it \in Range(kb.age_ratings) : it[2] <= age}}

query_genre_games(genres) ==
    UNION {Range(get_games_by_genre(genres[i])) : i \in 1..Len(genres)}

intersect_games(games1, games2) == games1 \cap games2

\* Variant: strategy 1 adds the very popular games without intersecting them
\* with the age-appropriate ones.
expand_recommendations_unfiltered(age, preferred_genres) ==
    LET age_appropriate == query_age_appropriate_games(age)
        popular_games == Range(get_games_by_popularity("very_popular"))
        easy_games == Range(get_games_by_difficulty("easy"))
        family_games == query_genre_games(<<"Puzzle", "Racing", "Sports">>)
    IN popular_games
       \cup (age_appropriate \cap easy_games)
       \cup (IF age < 16 THEN age_appropriate \cap family_games ELSE {})

\* Variant: strategies 1 and 2 left out, only the family genres are added.
expand_recommendations_family_only(age, preferred_genres) ==
    LET age_appropriate == query_age_appropriate_games(age)
        family_games == query_genre_games(<<"Puzzle", "Racing", "Sports">>)
    IN IF age < 16 THEN age_appropriate \cap family_games ELSE {}

\* Variant: strategy 3 without its age test (the family genres are added
\* for every age).
expand_recommendations_family_always(age, preferred_genres) ==
    LET age_appropriate == query_age_appropriate_games(age)
        popular_games == Range(get_games_by_popularity("very_popular"))
        easy_games == Range(get_games_by_difficulty("easy"))
        family_games == query_genre_games(<<"Puzzle", "Racing", "Sports">>)
    IN (age_appropriate \cap popular_games)
       \cup (age_appropriate \cap easy_games)
       \cup (age_appropriate \cap family_games)

expand_recommendations(age, preferred_genres) ==
    LET age_appropriate == query_age_appropriate_games(age)
        popular_games == Range(get_games_by_popularity("very_popular"))
        easy_games == Range(get_games_by_difficulty("easy"))
        family_games == query_genre_games(<<"Puzzle", "Racing", "Sports">>)
    IN (age_appropriate \cap popular_games)
       \cup (age_appropriate \cap easy_games)
       \cup (IF age < 16 THEN age_appropriate \cap family_games ELSE {})

\* Variant: the genre bonus set to 0.5 and the final clamp left out.
calculate_relevance_score_unclamped(game, age, preferred_genres) ==
    LET age_part == IF get_game_age_rating(game) <= age THEN 3 ELSE 0
        genre_part == IF in_list(get_game_genre(game), preferred_genres)
                      THEN 5 ELSE 0
        popularity_part ==
            IF in_list(game, get_games_by_popularity("very_popular")) THEN 2
            ELSE IF in_list(game, get_games_by_popularity("popular")) THEN 1
            ELSE 0
        difficulty_part ==
            IF age < 16 /\ in_list(game, get_games_by_difficulty("easy")) THEN 1
            ELSE IF age >= 16 /\ in_list(game, get_games_by_difficulty("medium"))
                 THEN 1
            ELSE 0
    IN age_part + genre_part + popularity_part + difficulty_part

\* Variant: the genre bonus set to 0.3, the same as the age bonus.
calculate_relevance_score_small_genre_bonus(game, age, preferred_genres) ==
    LET age_part == IF get_game_age_rating(game) <= age THEN 3 ELSE 0
        genre_part == IF in_list(get_game_genre(game), preferred_genres)
                      THEN 3 ELSE 0
        popularity_part ==
            IF in_list(game, get_games_by_popularity("very_popular")) THEN 2
            ELSE IF in_list(game, get_games_by_popularity("popular")) THEN 1
            ELSE 0
        difficulty_part ==
            IF age < 16 /\ in_list(game, get_games_by_difficulty("easy")) THEN 1
            ELSE IF age >= 16 /\ in_list(game, get_games_by_difficulty("medium"))
                 THEN 1
            ELSE 0
    IN min(age_part + genre_part + popularity_part + difficulty_part, 10)

\* Variant: the difficulty bonus given to easy and medium games alike,
\* whatever the age.
calculate_relevance_score_any_difficulty(game, age, preferred_genres) ==
    LET age_part == IF get_game_age_rating(game) <= age THEN 3 ELSE 0
        genre_part == IF in_list(get_game_genre(game), preferred_genres)
                      THEN 4 ELSE 0
        popularity_part ==
            IF in_list(game, get_games_by_popularity("very_popular")) THEN 2
            ELSE IF in_list(game, get_games_by_popularity("popular")) THEN 1
            ELSE 0
        difficulty_part ==
            IF in_list(game, get_games_by_difficulty("easy")) THEN 1
            ELSE IF in_list(game, get_games_by_difficulty("medium")) THEN 1
            ELSE 0
    IN min(age_part + genre_part + popularity_part + difficulty_part, 10)

\* Scores in tenths.  The float sums of the code are ordered and equal exactly
\* as their tenths are whenever the age bonus applies, which it does for every
\* game the engine ranks.
calculate_relevance_score(game, age, preferred_genres) ==
    LET age_part == IF get_game_age_rating(game) <= age THEN 3 ELSE 0
        genre_part == IF in_list(get_game_genre(game), preferred_genres)
                      THEN 4 ELSE 0
        popularity_part ==
            IF in_list(game, get_games_by_popularity("very_popular")) THEN 2
            ELSE IF in_list(game, get_games_by_popularity("popular")) THEN 1
            ELSE 0
        difficulty_part ==
            IF age < 16 /\ in_list(game, get_games_by_difficulty("easy")) THEN 1
            ELSE IF age >= 16 /\ in_list(game, get_games_by_difficulty("medium"))
                 THEN 1
            ELSE 0
    IN min(age_part + genre_part + popularity_part + difficulty_part, 10)

get_game_platforms(game) ==
    LET has(item) == in_list(game, item[2])
    IN dict_keys(SelectSeq(kb.platforms, has))

rank_recommendations(games, age, preferred_genres) ==
    LET order == set_iteration(games)
        ranked_games ==
            [i \in 1..Len(order) |->
                [name |-> order[i],
                 genre |-> get_game_genre(order[i]),
                 age_rating |-> get_game_age_rating(order[i]),
                 relevance_score |->
                     calculate_relevance_score(order[i], age, preferred_genres),
                 platforms |-> get_game_platforms(order[i])]]
    IN sort_by_score_desc(ranked_games)

\* The rationale text, sentence by sentence: the age sentence, the genre
\* sentence (present iff the list is non-empty, so the joined list stands for
\* it), the count sentence and the top pick (or the no-match sentence).
generate_reasoning(age, preferred_genres, recommendations) ==
    [age |-> age,
     genres |-> preferred_genres,
     found |-> Len(recommendations),
     top |-> IF recommendations # <<>>
             THEN <<recommendations[1].name, recommendations[1].genre,
                    recommendations[1].relevance_score>>
             ELSE <<>>]

get_recommendations(age, preferred_genres) ==
    LET age_appropriate_games == query_age_appropriate_games(age)
        genre_games == query_genre_games(preferred_genres)
        primary == intersect_games(age_appropriate_games, genre_games)
        recommended_games ==
            IF primary = {} THEN expand_recommendations(age, preferred_genres)
            ELSE primary
        sorted_recommendations ==
            rank_recommendations(recommended_games, age, preferred_genres)
    IN [recommendations |-> sorted_recommendations,
        reasoning |-> generate_reasoning(age, preferred_genres,
                                         sorted_recommendations),
        total_found |-> Len(sorted_recommendations),
        age_appropriate_count |-> Cardinality(age_appropriate_games),
        genre_matching_count |-> Cardinality(genre_games)]

\* Variant: the filter inverted (g in excluded_genres).
get_alternative_recommendations_inverted(age, excluded_genres) ==
    LET excluded == IF excluded_genres = {} THEN {}
                    ELSE CHOOSE E \in excluded_genres : TRUE
        keep(g) == g \in excluded
        alternative_genres == SelectSeq(get_all_genres, keep)
    IN get_recommendations(age, alternative_genres)

\* excluded_genres is None ({}) or a collection of genres ({E}); the code
\* only tests membership in it.
get_alternative_recommendations(age, excluded_genres) ==
    LET excluded == IF excluded_genres = {} THEN {}
                    ELSE CHOOSE E \in excluded_genres : TRUE
        keep(g) == g \notin excluded
        alternative_genres == SelectSeq(get_all_genres, keep)
    IN get_recommendations(age, alternative_genres)


(***************************************************************************)
(* input_parser.py.  A text is a sequence of tokens: words and numbers,    *)
(* separated by single spaces, and punctuation marks, each attached to the *)
(* token before it.  Tokens are in lower case (the extraction lowercases   *)
(* the text before matching); Russian words are written in Latin           *)
(* transliteration: mne, vozrast, let, ya, nravyatsya, lyublyu, interesy,  *)
(* predpochteniya, zhanry.  An optional value is {} for None and {v} for v.*)
(***************************************************************************)
MinValidAge == 3
MaxValidAge == 100

known_genres ==
    <<"RPG", "Action", "Adventure", "Strategy", "Simulation",
      "Puzzle", "Indie", "Horror", "Racing", "Sports">>

\* genre.lower()
lower(genre) ==
    CASE genre = "RPG" -> "rpg"
      [] genre = "Action" -> "action"
      [] genre = "Adventure" -> "adventure"
      [] genre = "Strategy" -> "strategy"
      [] genre = "Simulation" -> "simulation"
      [] genre = "Puzzle" -> "puzzle"
      [] genre = "Indie" -> "indie"
      [] genre = "Horror" -> "horror"
      [] genre = "Racing" -> "racing"
      [] genre = "Sports" -> "sports"

\* genre_mappings of _parse_genres_from_text: Russian name, canonical label.
genre_mappings ==
    << <<"indi", "Indie">>, <<"indi-igry", "Indie">>, <<"indi igry", "Indie">>,
       <<"rolevye", "RPG">>, <<"rolevye igry", "RPG">>, <<"ekshen", "Action">>,
       <<"ekshn", "Action">>, <<"priklyucheniya", "Adventure">>,
       <<"strategiya", "Strategy">>, <<"strategii", "Strategy">>,
       <<"simulyator", "Simulation">>, <<"simulyatory", "Simulation">>,
       <<"golovolomki", "Puzzle">>, <<"golovolomka", "Puzzle">>,
       <<"uzhasy", "Horror">>, <<"khorror", "Horror">>, <<"gonki", "Racing">>,
       <<"sport", "Sports">>, <<"sportivnye", "Sports">> >>

\* The decimal numerals of the texts and what int() makes of them.
NumberValue ==
    ("2" :> 2) @@ ("13" :> 13) @@ ("150" :> 150)
    @@ ("16" :> 16) @@ ("18" :> 18) @@ ("25" :> 25) @@ ("30" :> 30)

is_number(token) == token \in DOMAIN NumberValue

Punctuation == {":", ".", ",", "-", ";"}

\* `word` is the end of `token` (a pattern that begins with the word matches
\* at the end of a longer word too).
ends_with(token, word) ==
    \/ token = word
    \/ word = "ya" /\ token \in {"nravyatsya", "predpochteniya"}

\* `name` in token: the names (Russian names, lowercased genre labels) that
\* are substrings of the token.
contains(token, name) ==
    \/ token = name
    \/ token = "indi-igry" /\ name = "indi"
    \/ token = "sportivnye" /\ name = "sport"

\* re.search(age_patterns[k], text_lower): the tokens at which pattern k
\* matches, and the number it captures there.
age_pattern_starts(k, text) ==
    {i \in 1..Len(text) :
        CASE k = 1 -> /\ i + 2 <= Len(text)
                      /\ ends_with(text[i], "mne")
                      /\ is_number(text[i + 1])
                      /\ text[i + 2] = "let"
          [] k = 2 -> /\ ends_with(text[i], "vozrast")
                      /\ \/ i + 1 <= Len(text) /\ is_number(text[i + 1])
                         \/ /\ i + 2 <= Len(text)
                            /\ text[i + 1] = ":"
                            /\ is_number(text[i + 2])
          [] k = 3 -> /\ i + 1 <= Len(text)
                      /\ is_number(text[i])
                      /\ text[i + 1] = "let"
          [] k = 4 -> /\ i + 2 <= Len(text)
                      /\ ends_with(text[i], "ya")
                      /\ is_number(text[i + 1])
                      /\ text[i + 2] = "let"}

age_pattern_group(k, text) ==
    LET starts == age_pattern_starts(k, text)
        i == CHOOSE j \in starts : \A l \in starts : j <= l
    IN IF starts = {} THEN {}
       ELSE IF k = 3 THEN {text[i]}
       ELSE IF k = 2 /\ text[i + 1] = ":" THEN {text[i + 2]}
       ELSE {text[i + 1]}

\* Variant: the range test 3 <= age <= 100 left out, the first pattern that
\* matches returns its number.
extract_age_unchecked(text) ==
    LET age_of(k) == NumberValue[CHOOSE t \in age_pattern_group(k, text) : TRUE]
        returning == {k \in 1..4 : age_pattern_group(k, text) # {}}
    IN IF returning = {} THEN {}
       ELSE {age_of(CHOOSE k \in returning : \A l \in returning : k <= l)}

\* Variant: the loop ends at the first pattern that matches (return None
\* when its number is out of range).
extract_age_first_match(text) ==
    LET age_of(k) == NumberValue[CHOOSE t \in age_pattern_group(k, text) : TRUE]
        matching == {k \in 1..4 : age_pattern_group(k, text) # {}}
        first == CHOOSE k \in matching : \A l \in matching : k <= l
    IN IF matching = {} THEN {}
       ELSE IF MinValidAge <= age_of(first) /\ age_of(first) <= MaxValidAge
            THEN {age_of(first)}
       ELSE {}

\* The patterns are tried in order; a pattern whose number is out of range
\* does not end the loop.
extract_age(text) ==
    LET age_of(k) == NumberValue[CHOOSE t \in age_pattern_group(k, text) : TRUE]
        returning == {k \in 1..4 :
                        /\ age_pattern_group(k, text) # {}
                        /\ MinValidAge <= age_of(k)
                        /\ age_of(k) <= MaxValidAge}
    IN IF returning = {} THEN {}
       ELSE {age_of(CHOOSE k \in returning : \A l \in returning : k <= l)}

\* The tokens before the first full stop.
RECURSIVE up_to_full_stop(_)
up_to_full_stop(tokens) ==
    IF tokens = <<>> \/ Head(tokens) = "." THEN <<>>
    ELSE <<Head(tokens)>> \o up_to_full_stop(Tail(tokens))

\* The tokens at which the phrase of genre_patterns[k] ends.
genre_phrase_ends(k, text) ==
    {e \in 1..Len(text) :
        CASE k = 1 -> e >= 2 /\ ends_with(text[e - 1], "mne")
                             /\ text[e] = "nravyatsya"
          [] k = 2 -> text[e] = "lyublyu"
          [] k = 3 -> text[e] = "interesy"
          [] k = 4 -> text[e] = "predpochteniya"
          [] k = 5 -> text[e] = "zhanry"}

\* What \s*:?\s*([^.]+) captures after a phrase that ends at token e: <<>>
\* when it cannot match there (nothing, or a full stop, follows at once).
captured_after(text, e) ==
    LET rest == SubSeq(text, e + 1, Len(text))
    IN IF rest = <<>> \/ rest[1] = "." THEN <<>>
       ELSE IF rest[1] = ":"
            THEN IF up_to_full_stop(Tail(rest)) = <<>> THEN <<":">>
                 ELSE up_to_full_stop(Tail(rest))
       ELSE up_to_full_stop(rest)

\* re.search(genre_patterns[k], text_lower).group(1), <<>> without a match.
genre_pattern_group(k, text) ==
    LET ends == {e \in genre_phrase_ends(k, text) : captured_after(text, e) # <<>>}
    IN IF ends = {} THEN <<>>
       ELSE captured_after(text, CHOOSE e \in ends : \A f \in ends : e <= f)

\* The labels found in a captured span; the code collects them in a list that
\* _extract_genres turns into a set.
parse_genres_from_text(genres_text) ==
    {genre_mappings[m][2] : m \in {n \in 1..Len(genre_mappings) :
        \E i \in 1..Len(genres_text) :
            contains(genres_text[i], genre_mappings[n][1])}}
    \cup {g \in Range(known_genres) :
            \E i \in 1..Len(genres_text) :
                genres_text[i] \notin Punctuation
                /\ contains(genres_text[i], lower(g))}

\* Variant: the direct scan of the whole text runs whatever the patterns
\* have found.
extract_genres_always_scan(text) ==
    LET by_pattern ==
            UNION {parse_genres_from_text(genre_pattern_group(k, text)) : k \in 1..5}
        direct == {g \in Range(known_genres) :
                      \E i \in 1..Len(text) : contains(text[i], lower(g))}
    IN set_iteration(by_pattern \cup direct)

extract_genres(text) ==
    LET by_pattern ==
            UNION {parse_genres_from_text(genre_pattern_group(k, text)) : k \in 1..5}
        direct == {g \in Range(known_genres) :
                      \E i \in 1..Len(text) : contains(text[i], lower(g))}
        found_genres == IF by_pattern = {} THEN direct ELSE by_pattern
    IN set_iteration(found_genres)

\* Variant: an age that was not found is replaced by the adult default.
parse_input_default_age(user_input) ==
    [age |-> IF extract_age(user_input) = {} THEN {DefaultAgeRating}
             ELSE extract_age(user_input),
     genres |-> extract_genres(user_input),
     original_input |-> user_input]

\* The texts have no white space at their ends for strip() to remove.
parse_input(user_input) ==
    [age |-> extract_age(user_input),
     genres |-> extract_genres(user_input),
     original_input |-> user_input]

\* Variant: is_valid computed with `or`.
validate_input_either(parsed_data) ==
    LET age_valid == parsed_data.age # {}
        genres_valid == parsed_data.genres # <<>>
    IN [age |-> parsed_data.age,
        genres |-> parsed_data.genres,
        original_input |-> parsed_data.original_input,
        age_valid |-> age_valid,
        age_error |-> IF age_valid THEN None ELSE "age not found in the text",
        genres_valid |-> genres_valid,
        genres_error |-> IF genres_valid THEN None
                         ELSE "genres not found in the text",
        is_valid |-> age_valid \/ genres_valid]

validate_input(parsed_data) ==
    LET age_valid == parsed_data.age # {}
        genres_valid == parsed_data.genres # <<>>
    IN [age |-> parsed_data.age,
        genres |-> parsed_data.genres,
        original_input |-> parsed_data.original_input,
        age_valid |-> age_valid,
        age_error |-> IF age_valid THEN None ELSE "age not found in the text",
        genres_valid |-> genres_valid,
        genres_error |-> IF genres_valid THEN None
                         ELSE "genres not found in the text",
        is_valid |-> age_valid /\ genres_valid]

(***************************************************************************)
(* The inputs the calls are made with.                                     *)
(***************************************************************************)
Ages == 0..MaxAge

Seeds == 0..MaxSeed

\* The ten genres of the catalog and one label it does not know.
GenreLabels == Range(dict_keys(InitGenres)) \cup {"UnknownGenre"}

\* Every list of at most MaxGenres labels, and the two-genre list the test
\* suite asks with.
GenreLists ==
    UNION {[1..n -> GenreLabels] : n \in 0..MaxGenres} \cup {<<"RPG", "Indie">>}

\* None ({}) or a collection of at most MaxExcluded catalog genres ({E}).
ExcludedArgs ==
    {{}} \cup {{E} : E \in {X \in SUBSET Range(dict_keys(InitGenres)) :
                                 Cardinality(X) <= MaxExcluded}}

\* Every game name some table holds and one name no table holds.
GameNames ==
    (Range(InternedNames) \ Range(dict_keys(InitGenres))) \cup {"Unknown Game"}

\* The words the texts are made of.
Vocabulary ==
    {"mne", "vozrast", "let", "ya", ":", ".", "2", "13", "150",
     "nravyatsya", "lyublyu", "rpg", "indi-igry"}

\* Longer texts: the five of get_parsing_examples, the ones the test suite
\* calls invalid, an age given twice and a genre named before the preference
\* phrase.
ExampleTexts ==
    {<<"mne", "13", "let", ",", "mne", "nravyatsya", ":", "rpg", ",", "indi-igry">>,
     <<"vozrast", ":", "25", ",", "lyublyu", "action", "i", "strategy">>,
     <<"ya", "18", "let", ",", "interesy", ":", "horror", ",", "adventure">>,
     <<"mne", "30", "let", ",", "predpochteniya", ":", "simulation", ",", "puzzle">>,
     <<"vozrast", "16", ",", "nravyatsya", "racing", "i", "sports">>,
     <<"privet", ",", "kak", "dela", "?">>,
     <<"mne", "nravyatsya", "igry">>,
     <<"vozrast", ":", "staryj">>,
     <<"vozrast", "150", "13", "let">>,
     <<"mne", "150", "let", ",", "vozrast", "25">>,
     <<"mne", "13", "let", ",", "vozrast", "25">>,
     <<"rpg", ".", "lyublyu", "indi-igry">>,
     <<"lyublyu", "rpg", ".", "sports", "zhanry", "gonki">>}

Texts == UNION {[1..n -> Vocabulary] : n \in 0..MaxTokens} \cup ExampleTexts

\* The genre lists a single game is scored against.
ScoreGenreLists ==
    {<<>>, <<"RPG", "Indie">>} \cup {<<g>> : g \in GenreLabels}

LevelNames == {"easy", "medium", "hard", "very_popular", "popular", "niche", "other"}

(***************************************************************************)
(* The state machine: a call is made from the idle state, its result is    *)
(* held until the caller drops it.                                         *)
(***************************************************************************)
Init ==
    /\ kb = GameKnowledgeBase
    /\ hashSeed \in Seeds
    /\ op = "idle"
    /\ args = <<>>
    /\ ret = <<>>
    /\ prev = <<>>
    /\ repeated = FALSE
    /\ pc = "main"
    /\ line = <<>>
    /\ validated_data = <<>>
    /\ raised = ""
    /\ exited = <<>>

\* Variant: _query_genre_games takes each genre's list out of the table
\* (self.kb.genres.pop(genre, [])) instead of reading it.
ReturnsPopping(name, arguments, value) ==
    LET kept(item) == item[1] \notin Range(arguments.preferred_genres)
    IN /\ op = "idle"
       /\ op' = name
       /\ args' = arguments
       /\ ret' = value
       /\ prev' = <<>>
       /\ repeated' = FALSE
       /\ kb' = IF name = "get_recommendations"
                THEN [kb EXCEPT !.genres = SelectSeq(@, kept)]
                ELSE kb
       /\ UNCHANGED <<hashSeed, sessionVars>>

\* A call of a method that returns `value`: no method assigns to a table of
\* the knowledge base, and the interpreter's hash seed is fixed.
Returns(name, arguments, value) ==
    /\ op = "idle"
    /\ op' = name
    /\ args' = arguments
    /\ ret' = value
    /\ prev' = <<>>
    /\ repeated' = FALSE
    /\ UNCHANGED <<kb, hashSeed, sessionVars>>

GetGamesByGenre ==
    /\ op = "idle"
    /\ \E genre \in GenreLabels :
           Returns("get_games_by_genre", [genre |-> genre],
                   get_games_by_genre(genre))

GetGamesByAge ==
    /\ op = "idle"
    /\ \E age \in Ages :
           Returns("get_games_by_age", [age |-> age], get_games_by_age(age))

GetGamesByDifficulty ==
    /\ op = "idle"
    /\ \E level \in LevelNames :
           Returns("get_games_by_difficulty", [level |-> level],
                   get_games_by_difficulty(level))

GetGamesByPopularity ==
    /\ op = "idle"
    /\ \E level \in LevelNames :
           Returns("get_games_by_popularity", [level |-> level],
                   get_games_by_popularity(level))

GetGameGenre ==
    /\ op = "idle"
    /\ \E game \in GameNames :
           Returns("get_game_genre", [game |-> game], get_game_genre(game))

GetGameAgeRating ==
    /\ op = "idle"
    /\ \E game \in GameNames :
           Returns("get_game_age_rating", [game |-> game],
                   get_game_age_rating(game))

GetAllGenres ==
    /\ op = "idle"
    /\ Returns("get_all_genres", <<>>, get_all_genres)

GetAllGames ==
    /\ op = "idle"
    /\ Returns("get_all_games", <<>>, get_all_games)

GetRecommendations ==
    /\ op = "idle"
    /\ \E age \in Ages, preferred_genres \in GenreLists :
           Returns("get_recommendations",
                   [age |-> age, preferred_genres |-> preferred_genres],
                   get_recommendations(age, preferred_genres))

GetAlternativeRecommendations ==
    /\ op = "idle"
    /\ \E age \in Ages, excluded_genres \in ExcludedArgs :
           Returns("get_alternative_recommendations",
                   [age |-> age, excluded_genres |-> excluded_genres],
                   get_alternative_recommendations(age, excluded_genres))

\* The scoring rule applied to one game, as _rank_recommendations applies it
\* to each candidate.
CalculateRelevanceScore ==
    /\ op = "idle"
    /\ \E game \in GameNames, age \in Ages, preferred_genres \in ScoreGenreLists :
           Returns("calculate_relevance_score",
                   [game |-> game, age |-> age,
                    preferred_genres |-> preferred_genres],
                   calculate_relevance_score(game, age, preferred_genres))

ParseInput ==
    /\ op = "idle"
    /\ \E user_input \in Texts :
           Returns("parse_input", [user_input |-> user_input],
                   parse_input(user_input))

\* validate_input is called with what parse_input has just returned.
ValidateInput ==
    /\ op = "parse_input"
    /\ op' = "validate_input"
    /\ args' = [parsed_data |-> ret]
    /\ ret' = validate_input(ret)
    /\ prev' = <<>>
    /\ repeated' = FALSE
    /\ UNCHANGED <<kb, hashSeed, sessionVars>>

\* Variant: the candidates iterated in another order on the second call (as
\* under another hash seed), so equal scores come out in another order.
RepeatCallReordered ==
    LET again == get_recommendations(args.age, args.preferred_genres)
        reversed == [i \in 1..Len(again.recommendations) |->
                        again.recommendations[Len(again.recommendations) + 1 - i]]
    IN /\ op = "get_recommendations"
       /\ ~repeated
       /\ prev' = ret
       /\ ret' = [again EXCEPT !.recommendations = sort_by_score_desc(reversed)]
       /\ repeated' = TRUE
       /\ UNCHANGED <<kb, hashSeed, op, args, sessionVars>>

\* get_recommendations called again with the same arguments, the first
\* result still at hand.
RepeatCall ==
    /\ op = "get_recommendations"
    /\ ~repeated
    /\ prev' = ret
    /\ ret' = get_recommendations(args.age, args.preferred_genres)
    /\ repeated' = TRUE
    /\ UNCHANGED <<kb, hashSeed, op, args, sessionVars>>

\* The caller drops the result.
Return ==
    /\ op # "idle"
    /\ op' = "idle"
    /\ args' = <<>>
    /\ ret' = <<>>
    /\ prev' = <<>>
    /\ repeated' = FALSE
    /\ UNCHANGED <<kb, hashSeed, sessionVars>>

Next ==
    \/ GetGamesByGenre
    \/ GetGamesByAge
    \/ GetGamesByDifficulty
    \/ GetGamesByPopularity
    \/ GetGameGenre
    \/ GetGameAgeRating
    \/ GetAllGenres
    \/ GetAllGames
    \/ GetRecommendations
    \/ GetAlternativeRecommendations
    \/ CalculateRelevanceScore
    \/ ParseInput
    \/ ValidateInput
    \/ RepeatCall
    \/ Return

Spec == Init /\ [][Next]_vars

(***************************************************************************)
(* main.py: the console program.  A line is a sequence of tokens as above; *)
(* " " is a run of white space at an end of the line, and a word may be    *)
(* typed in capitals.  The Russian keywords are vyhod, da, net and the     *)
(* single letters de and en.                                               *)
(***************************************************************************)
ExitKeywords == <<"vyhod", "exit", "quit", "q">>

YesAnswers == <<"da", "yes", "y", "de">>

NoAnswers == <<"net", "no", "n", "en">>

\* str.lower() of a word.
lower_word(word) ==
    CASE word = "EXIT" -> "exit"
      [] word = "Quit" -> "quit"
      [] word = "Q" -> "q"
      [] word = "VYHOD" -> "vyhod"
      [] word = "DA" -> "da"
      [] word = "Yes" -> "yes"
      [] word = "NET" -> "net"
      [] word = "No" -> "no"
      [] OTHER -> word

\* str.strip()
RECURSIVE strip(_)
strip(typed) ==
    IF typed = <<>> THEN <<>>
    ELSE IF Head(typed) = " " THEN strip(Tail(typed))
    ELSE IF typed[Len(typed)] = " " THEN strip(SubSeq(typed, 1, Len(typed) - 1))
    ELSE typed

\* Variant: the keyword compared without lower().
get_user_input_case_sensitive(user_input) ==
    IF Len(user_input) = 1 /\ in_list(user_input[1], ExitKeywords)
    THEN <<"exit">>
    ELSE user_input

\* What get_user_input returns for a stripped, non-empty line: 'exit' for a
\* keyword in any case, else the line.
get_user_input(user_input) ==
    IF Len(user_input) = 1 /\ in_list(lower_word(user_input[1]), ExitKeywords)
    THEN <<"exit">>
    ELSE user_input

\* What may be typed at the main prompt.
MainPromptLines ==
    Texts \cup {<<"exit">>, <<"EXIT">>, <<"Quit">>, <<"q">>, <<"Q">>, <<"vyhod">>,
                <<"VYHOD">>, <<" ">>, <<" ", "exit", " ">>,
                <<"exit", "13", "let", "rpg">>, <<" ", "13", "let", "rpg">>}

\* What may be typed at a yes/no prompt (already stripped).
Responses == {"da", "DA", "Yes", "y", "de", "net", "NET", "No", "n", "en", "maybe", ""}

\* The positions inside the try block of run.
TrySteps ==
    {"prompt", "parse", "check", "display", "ask_alternatives", "alternatives",
     "ask_continuation"}

\* A step that only moves on.
Goto(position) ==
    /\ pc' = position
    /\ UNCHANGED <<kb, hashSeed, op, args, ret, prev, repeated, line,
                   validated_data, raised, exited>>

\* The next iteration of the while loop: the locals of the last one are gone.
NextIteration ==
    /\ pc' = "prompt"
    /\ line' = <<>>
    /\ validated_data' = <<>>
    /\ raised' = ""
    /\ op' = "idle"
    /\ args' = <<>>
    /\ ret' = <<>>
    /\ UNCHANGED <<kb, hashSeed, prev, repeated, exited>>

\* The process ends with the exit status, for the cause.
Exit(status, cause) ==
    /\ pc' = "exited"
    /\ exited' = <<status, cause>>
    /\ UNCHANGED <<kb, hashSeed, op, args, ret, prev, repeated, line,
                   validated_data, raised>>

\* main: GameRecommendationSystem() returns.
Construct ==
    /\ pc = "main"
    /\ Goto("welcome")

\* main: the constructor raises; main reports and calls sys.exit(1).
ConstructFails ==
    /\ pc = "main"
    /\ Exit(1, "construct")

\* run: print_welcome and print_examples, before the try block.
Welcome ==
    /\ pc = "welcome"
    /\ Goto("prompt")

\* run: an exception there leaves run; main reports and calls sys.exit(1).
WelcomeFails ==
    /\ pc = "welcome"
    /\ Exit(1, "welcome")

\* get_user_input reads a line; run breaks on 'exit'.  An empty line is asked
\* for again.
GetUserInput ==
    /\ pc = "prompt"
    /\ \E typed \in MainPromptLines :
          LET user_input == strip(typed)
          IN IF user_input = <<>>
             THEN Goto("prompt")
             ELSE /\ line' = user_input
                  /\ IF get_user_input(user_input) = <<"exit">>
                     THEN pc' = "exited" /\ exited' = <<0, "exit_keyword">>
                     ELSE pc' = "parse" /\ exited' = exited
                  /\ UNCHANGED <<kb, hashSeed, op, args, ret, prev, repeated,
                                 validated_data, raised>>

\* get_user_input: input() raises KeyboardInterrupt or EOFError: sys.exit(0),
\* which no `except Exception` catches.
InputClosed ==
    /\ pc = "prompt"
    /\ Exit(0, "input_closed")

\* parse_and_validate_input
ParseAndValidateInput ==
    /\ pc = "parse"
    /\ pc' = "check"
    /\ op' = "parse_and_validate_input"
    /\ args' = [user_input |-> line]
    /\ ret' = validate_input(parse_input(line))
    /\ validated_data' = validate_input(parse_input(line))
    /\ UNCHANGED <<kb, hashSeed, prev, repeated, line, raised, exited>>

\* run: `if not parsed_data['is_valid']: ... continue`
ContinueInvalid ==
    /\ pc = "check"
    /\ ~validated_data.is_valid
    /\ NextIteration

\* Variant: the validity test of run left out.  Without an age the engine
\* raises TypeError on `min_age <= None`.
SystemGetRecommendationsUnchecked ==
    /\ pc = "check"
    /\ IF validated_data.age = {}
       THEN /\ pc' = "except"
            /\ raised' = "check"
            /\ UNCHANGED <<kb, hashSeed, op, args, ret, prev, repeated, line,
                           validated_data, exited>>
       ELSE LET age == CHOOSE a \in validated_data.age : TRUE
            IN /\ pc' = "display"
               /\ op' = "get_recommendations"
               /\ args' = [age |-> age, preferred_genres |-> validated_data.genres]
               /\ ret' = get_recommendations(age, validated_data.genres)
               /\ UNCHANGED <<kb, hashSeed, prev, repeated, line, validated_data,
                              raised, exited>>

\* GameRecommendationSystem.get_recommendations, called for a valid input.
SystemGetRecommendations ==
    /\ pc = "check"
    /\ validated_data.is_valid
    /\ LET age == CHOOSE a \in validated_data.age : TRUE
       IN /\ pc' = "display"
          /\ op' = "get_recommendations"
          /\ args' = [age |-> age, preferred_genres |-> validated_data.genres]
          /\ ret' = get_recommendations(age, validated_data.genres)
          /\ UNCHANGED <<kb, hashSeed, prev, repeated, line, validated_data,
                         raised, exited>>

DisplayRecommendations ==
    /\ pc = "display"
    /\ Goto("ask_alternatives")

\* ask_for_alternatives: an answer that is neither yes nor no is asked again.
AskForAlternatives ==
    /\ pc = "ask_alternatives"
    /\ \E response \in Responses :
          IF in_list(lower_word(response), YesAnswers) THEN Goto("alternatives")
          ELSE IF in_list(lower_word(response), NoAnswers)
               THEN Goto("ask_continuation")
          ELSE Goto("ask_alternatives")

\* ask_for_alternatives: KeyboardInterrupt or EOFError is taken as a no.
AlternativesPromptClosed ==
    /\ pc = "ask_alternatives"
    /\ Goto("ask_continuation")

\* GameRecommendationSystem.get_alternative_recommendations
SystemGetAlternativeRecommendations ==
    /\ pc = "alternatives"
    /\ LET age == CHOOSE a \in validated_data.age : TRUE
           excluded_genres == {Range(validated_data.genres)}
       IN /\ pc' = "ask_continuation"
          /\ op' = "get_alternative_recommendations"
          /\ args' = [age |-> age, excluded_genres |-> excluded_genres]
          /\ ret' = get_alternative_recommendations(age, excluded_genres)
          /\ UNCHANGED <<kb, hashSeed, prev, repeated, line, validated_data,
                         raised, exited>>

\* ask_for_continuation: yes starts the next iteration, no breaks.
AskForContinuation ==
    /\ pc = "ask_continuation"
    /\ \E response \in Responses :
          IF in_list(lower_word(response), YesAnswers) THEN NextIteration
          ELSE IF in_list(lower_word(response), NoAnswers) THEN Exit(0, "declined")
          ELSE Goto("ask_continuation")

\* ask_for_continuation: KeyboardInterrupt or EOFError is taken as a no, and
\* run breaks.
ContinuationPromptClosed ==
    /\ pc = "ask_continuation"
    /\ Exit(0, "continuation_closed")

\* A step inside the try block raises an Exception that the step does not
\* catch itself: control passes to `except Exception as e`.
Raise ==
    /\ pc \in TrySteps
    /\ pc' = "except"
    /\ raised' = pc
    /\ UNCHANGED <<kb, hashSeed, op, args, ret, prev, repeated, line,
                   validated_data, exited>>

\* Variant: the handler reports and breaks.
ReportErrorAndStop ==
    /\ pc = "except"
    /\ Exit(0, "error")

\* run: the handler prints the error and the loop goes on.
ReportError ==
    /\ pc = "except"
    /\ NextIteration

\* run: a print of the handler raises; the exception leaves run, main reports
\* and calls sys.exit(1).
HandlerFails ==
    /\ pc = "except"
    /\ Exit(1, "handler")

SessionNext ==
    \/ Construct
    \/ ConstructFails
    \/ Welcome
    \/ WelcomeFails
    \/ GetUserInput
    \/ InputClosed
    \/ ParseAndValidateInput
    \/ ContinueInvalid
    \/ SystemGetRecommendations
    \/ DisplayRecommendations
    \/ AskForAlternatives
    \/ AlternativesPromptClosed
    \/ SystemGetAlternativeRecommendations
    \/ AskForContinuation
    \/ ContinuationPromptClosed
    \/ Raise
    \/ ReportError
    \/ HandlerFails

SessionSpec == Init /\ [][SessionNext]_vars

(***************************************************************************)
(* Properties.                                                             *)
(***************************************************************************)
\* The ranked list a returned engine call holds.
Recs == ret.recommendations

RecIndices == 1..Len(Recs)

\* The primary candidate pool of a get_recommendations call: age-eligible
\* games of the preferred genres.
PrimaryPool ==
    {g \in Range(dict_keys(kb.age_ratings)) :
        /\ dict_get(kb.age_ratings, g, DefaultAgeRating) <= args.age
        /\ \E i \in 1..Len(args.preferred_genres) :
               g \in Range(dict_get(kb.genres, args.preferred_genres[i], <<>>))}

\* The genres an alternative call was told to leave out (None: none).
ExcludedOf(a) ==
    IF a.excluded_genres = {} THEN {}
    ELSE CHOOSE E \in a.excluded_genres : TRUE

\* C1: every game get_recommendations(a, G) returns has age_rating <= a,
\* whether it came from the primary intersection or from the fallback.
C1_AgeAppropriate ==
    op = "get_recommendations" =>
        \A i \in RecIndices : Recs[i].age_rating <= args.age

\* C1 witness: a fallback result and a primary result exist below the top
\* rating; here the fallback one, with games returned.
C1_Witness ==
    /\ op = "get_recommendations"
    /\ args.age < 18
    /\ PrimaryPool = {}
    /\ Len(Recs) > 0
    /\ \A i \in RecIndices : Recs[i].age_rating <= args.age

\* C2: get_alternative_recommendations(age, E) returns no game whose genre is
\* in E, also when the fallback expansion supplies the candidates.
C2_NoExcludedGenre ==
    op = "get_alternative_recommendations" =>
        \A i \in RecIndices : Recs[i].genre \notin ExcludedOf(args)

\* C3: every relevance_score get_recommendations returns lies in [0.0, 1.0]
\* (0..10 tenths).
C3_ScoreInUnitRange ==
    op = "get_recommendations" =>
        \A i \in RecIndices :
            Recs[i].relevance_score >= 0 /\ Recs[i].relevance_score <= 10

\* C3 witness: a returned game that collects every bonus and sits at 1.0.
C3_Witness ==
    /\ op = "get_recommendations"
    /\ \E i \in RecIndices : Recs[i].relevance_score = 10

\* C4: the list get_recommendations returns is ordered by relevance_score,
\* non-increasing: each entry's score is >= the next entry's.
C4_SortedByScore ==
    op = "get_recommendations" =>
        \A i \in RecIndices :
            i < Len(Recs) => Recs[i].relevance_score >= Recs[i + 1].relevance_score

\* C4 witness: a returned list of at least three games with different scores.
C4_Witness ==
    /\ op = "get_recommendations"
    /\ Len(Recs) >= 3
    /\ Recs[1].relevance_score > Recs[Len(Recs)].relevance_score

\* C5: when the age/genre intersection is empty, get_recommendations returns
\* a non-empty list provided some very-popular or easy game has an age rating
\* <= age.
C5_FallbackNonEmpty ==
    ( /\ op = "get_recommendations"
      /\ PrimaryPool = {}
      /\ \E g \in Range(get_games_by_popularity("very_popular"))
                  \cup Range(get_games_by_difficulty("easy")) :
             get_game_age_rating(g) <= args.age )
    => Len(Recs) > 0

\* C5 witness: an empty intersection at the lowest age at which a very-popular
\* or easy game qualifies.
C5_Witness ==
    /\ op = "get_recommendations"
    /\ args.age = 3
    /\ args.preferred_genres # <<>>
    /\ PrimaryPool = {}
    /\ Len(Recs) > 0

C7_GamesByAgeExact ==
    op = "get_games_by_age" =>
        /\ Range(ret) = {g \in Range(get_all_games) :
                            get_game_age_rating(g) <= args.age}
        /\ Range(ret) \subseteq Range(get_games_by_age(args.age + 1))

\* C7 witness: an age at which some games qualify and others do not.
C7_Witness ==
    /\ op = "get_games_by_age"
    /\ Len(ret) > 0
    /\ Len(ret) < Len(kb.age_ratings)

\* C8: all five catalog tables equal their values at construction after any
\* sequence of catalog queries, parse_input and validate_input calls, and
\* engine calls.
C8_CatalogUnchanged ==
    /\ kb.genres = InitGenres
    /\ kb.age_ratings = InitAgeRatings
    /\ kb.difficulty = InitDifficulty
    /\ kb.popularity = InitPopularity
    /\ kb.platforms = InitPlatforms

\* C8 witness: two engine calls have returned games read from the tables.
C8_Witness ==
    /\ op = "get_recommendations"
    /\ repeated
    /\ args.preferred_genres # <<>>
    /\ Len(Recs) > 0
    /\ kb = GameKnowledgeBase

\* The catalog genres not in E, in the order the genre table lists them.
ComplementGenres(E) ==
    LET keep(g) == g \notin E
    IN SelectSeq(<<"RPG", "Action", "Adventure", "Strategy", "Simulation",
                   "Puzzle", "Indie", "Horror", "Racing", "Sports">>, keep)

\* C9: get_alternative_recommendations(age, E) returns exactly what
\* get_recommendations(age, A) returns, A the catalog genres not in E (None
\* as empty): the same list, reasoning, total and counts.
C9_AlternativeIsComplement ==
    op = "get_alternative_recommendations" =>
        ret = get_recommendations(args.age, ComplementGenres(ExcludedOf(args)))

\* C9 witness: an alternative call that excludes known genres and returns games.
C9_Witness ==
    /\ op = "get_alternative_recommendations"
    /\ ExcludedOf(args) \cap Range(get_all_genres) # {}
    /\ Len(Recs) > 0

\* The game is in no list of the genre table.
AbsentFromGenres(game) ==
    \A i \in 1..Len(kb.genres) : game \notin Range(kb.genres[i][2])

\* C10 (as stated): the genre looked up for a game absent from the genre table
\* is the "unknown" sentinel.
C10_ReturnsUnknown ==
    (op = "get_game_genre" /\ AbsentFromGenres(args.game)) => ret = "unknown"

\* C10 (amended): the genre looked up for a game absent from the genre table
\* is None; the lookup returns and does not raise.
C10_ReturnsNone ==
    (op = "get_game_genre" /\ AbsentFromGenres(args.game)) => ret = None

\* C10 witness: the lookup of a name no table holds has returned.
C10_Witness ==
    /\ op = "get_game_genre"
    /\ args.game = "Unknown Game"
    /\ AbsentFromGenres(args.game)
    /\ ret = None

\* A call of the parser has returned: parse_input, or validate_input on its
\* result.
ParserReturned == op \in {"parse_input", "validate_input"}

\* The numbers the text holds, whatever stands around them.
NumbersIn(text) ==
    {NumberValue[text[i]] : i \in {j \in 1..Len(text) : is_number(text[j])}}

\* C11: the age parse_input returns is None or an integer of 3..100; a number
\* of the text outside that range is never the age.
C11_AgeInRange ==
    ParserReturned =>
        \A a \in ret.age : /\ MinValidAge <= a
                           /\ a <= MaxValidAge
                           /\ a \in NumbersIn(ret.original_input)

\* C11 witness: the first age pattern has matched a number above the range and
\* no age was returned.
C11_Witness ==
    /\ op = "parse_input"
    /\ age_pattern_group(1, args.user_input) = {"150"}
    /\ ret.age = {}

\* C12: validate_input sets age_valid iff the age is present, genres_valid
\* iff the genre list is non-empty, is_valid iff both; each error field is a
\* message exactly when its flag is false; age, genres and the text are kept.
C12_ValidationFlags ==
    op = "validate_input" =>
        /\ ret.age_valid = (args.parsed_data.age # {})
        /\ ret.genres_valid = (args.parsed_data.genres # <<>>)
        /\ ret.is_valid = (ret.age_valid /\ ret.genres_valid)
        /\ (ret.age_error = None) = ret.age_valid
        /\ (ret.genres_error = None) = ret.genres_valid
        /\ ret.age = args.parsed_data.age
        /\ ret.genres = args.parsed_data.genres
        /\ ret.original_input = args.parsed_data.original_input

\* C12 witness: a record with an age and no genre has been validated.
C12_Witness ==
    /\ op = "validate_input"
    /\ ret.age_valid
    /\ ~ret.genres_valid
    /\ ~ret.is_valid
    /\ ret.genres_error # None

\* Some token of the text names a genre: a canonical label or a Russian name.
NamesAGenre(text) ==
    \E i \in 1..Len(text) :
        \/ \E g \in Range(known_genres) : contains(text[i], lower(g))
        \/ \E m \in 1..Len(genre_mappings) : contains(text[i], genre_mappings[m][1])

\* C13: a text without a number of 3..100, or without a genre name, parses
\* and validates to is_valid = false (a returned record, no exception); the
\* empty text gives no age and no genres.
C13_InvalidInput ==
    op = "validate_input" =>
        /\ (NumbersIn(ret.original_input) \cap (MinValidAge..MaxValidAge) = {})
              => (ret.age = {} /\ ~ret.is_valid)
        /\ ~NamesAGenre(ret.original_input)
              => (ret.genres = <<>> /\ ~ret.is_valid)
        /\ (ret.age = {} \/ ret.genres = <<>>) => ~ret.is_valid
        /\ ret.original_input = <<>> => (ret.age = {} /\ ret.genres = <<>>)

\* C13 witness: a preference phrase followed by no genre, and no age, has
\* been validated.
C13_Witness ==
    /\ op = "validate_input"
    /\ ret.original_input = <<"mne", "nravyatsya", ":">>
    /\ ret.age = {}
    /\ ret.genres = <<>>
    /\ ~ret.is_valid

\* The number pattern k captures in the text (its leftmost match).
CapturedAge(k, text) ==
    NumberValue[CHOOSE t \in age_pattern_group(k, text) : TRUE]

\* The age patterns that match the text.
MatchingAgePatterns(text) == {k \in 1..4 : age_pattern_group(k, text) # {}}

\* The age patterns whose capture is of the valid range.
InRangeAgePatterns(text) ==
    {k \in MatchingAgePatterns(text) :
        /\ MinValidAge <= CapturedAge(k, text)
        /\ CapturedAge(k, text) <= MaxValidAge}

\* C19 (as stated): only the first pattern that matches is used: its number
\* is the age if it is of 3..100, and the age is absent otherwise, whatever
\* later patterns match.
C19_FirstMatchingPatternOnly ==
    ParserReturned =>
        LET text == ret.original_input
            matching == MatchingAgePatterns(text)
            first == CHOOSE k \in matching : \A l \in matching : k <= l
        IN IF matching = {} THEN ret.age = {}
           ELSE IF first \in InRangeAgePatterns(text)
                THEN ret.age = {CapturedAge(first, text)}
           ELSE ret.age = {}

\* C19 (amended): the age is the number of the first pattern, in priority
\* order, whose match is of 3..100: a pattern that matched an out-of-range
\* number is passed over and a later pattern decides; once a pattern has an
\* in-range match no later pattern is used; the age is absent only when no
\* pattern has an in-range match.
C19_FirstInRangePattern ==
    ParserReturned =>
        LET text == ret.original_input
            usable == InRangeAgePatterns(text)
            first == CHOOSE k \in usable : \A l \in usable : k <= l
        IN IF usable = {} THEN ret.age = {}
           ELSE ret.age = {CapturedAge(first, text)}

\* C19 witness: the first matching pattern captured an out-of-range number
\* and the age returned is the capture of a later pattern.
C19_Witness ==
    /\ op = "parse_input"
    /\ \E k \in MatchingAgePatterns(args.user_input) :
          /\ k \notin InRangeAgePatterns(args.user_input)
          /\ \A l \in MatchingAgePatterns(args.user_input) : k <= l
          /\ \E later \in InRangeAgePatterns(args.user_input) :
                later > k /\ ret.age = {CapturedAge(later, args.user_input)}

\* The spans the preference-phrase patterns capture in the text.
CapturedSpans(text) ==
    {genre_pattern_group(k, text) : k \in 1..5} \ {<<>>}

\* The token names the genre: by its canonical label or by a Russian name.
Names(token, genre) ==
    \/ contains(token, lower(genre))
    \/ \E m \in 1..Len(genre_mappings) :
          genre_mappings[m][2] = genre /\ contains(token, genre_mappings[m][1])

\* The genres named inside the captured spans (phase 1).
NamedInSpans(text) ==
    {g \in Range(known_genres) :
        \E span \in CapturedSpans(text) :
            \E i \in 1..Len(span) : Names(span[i], g)}

\* C20: the result has no duplicates and holds canonical labels only; when a
\* captured span names a genre the result is the genres named in the spans,
\* and a label that occurs only outside them is left out; the scan of the
\* whole text decides only when the spans name none.
C20_ScanOnlyWithoutPhrase ==
    ParserReturned =>
        LET text == ret.original_input
            found == Range(ret.genres)
            scanned == {g \in Range(known_genres) :
                           \E i \in 1..Len(text) : contains(text[i], lower(g))}
        IN /\ Cardinality(found) = Len(ret.genres)
           /\ found \subseteq Range(known_genres)
           /\ NamedInSpans(text) # {} => found = NamedInSpans(text)
           /\ NamedInSpans(text) = {} => found = scanned

\* C20 witness: a span named a genre, a canonical label stood outside every
\* span, and the label is not in the result.
C20_Witness ==
    /\ op = "parse_input"
    /\ NamedInSpans(args.user_input) # {}
    /\ \E g \in Range(known_genres) :
          /\ \E i \in 1..Len(args.user_input) :
                contains(args.user_input[i], lower(g))
          /\ g \notin NamedInSpans(args.user_input)
          /\ g \notin Range(ret.genres)

\* The games of a tier of the difficulty or popularity table.
TierGames(table, level) ==
    UNION {Range(table[i][2]) : i \in {j \in 1..Len(table) : table[j][1] = level}}

\* The games the age-rating table rates at or below the age.
AgeOk(age) ==
    {kb.age_ratings[i][1] :
        i \in {j \in 1..Len(kb.age_ratings) : kb.age_ratings[j][2] <= age}}

\* The games the genre table lists under one of the genres.
GenreOk(genres) ==
    UNION {Range(kb.genres[i][2]) :
              i \in {j \in 1..Len(kb.genres) : in_list(kb.genres[j][1], genres)}}

\* The games a returned engine call names.
RecNames == {Recs[i].name : i \in RecIndices}

\* C17: get_recommendations(age, G) returns the games of age_ok /\ genre_ok
\* when there are any; otherwise the age_ok games that are very popular or
\* easy, joined for age < 16 by the age_ok games of Puzzle, Racing and Sports;
\* so from age 16 on every fallback game is very popular or easy.
C17_CandidatePool ==
    op = "get_recommendations" =>
        LET age_ok == AgeOk(args.age)
            primary == age_ok \cap GenreOk(args.preferred_genres)
            very_popular == TierGames(kb.popularity, "very_popular")
            easy == TierGames(kb.difficulty, "easy")
            family == GenreOk(<<"Puzzle", "Racing", "Sports">>)
        IN IF primary # {} THEN RecNames = primary
           ELSE /\ RecNames = (age_ok \cap very_popular) \cup (age_ok \cap easy)
                                \cup (IF args.age < 16 THEN age_ok \cap family ELSE {})
                /\ args.age >= 16 => RecNames \subseteq very_popular \cup easy

\* C17 witness: a fallback for a player of 16 or more has returned games while
\* an age-eligible family game is neither very popular nor easy.
C17_Witness ==
    /\ op = "get_recommendations"
    /\ args.age >= 16
    /\ AgeOk(args.age) \cap GenreOk(args.preferred_genres) = {}
    /\ Len(Recs) > 0
    /\ (AgeOk(args.age) \cap GenreOk(<<"Puzzle", "Racing", "Sports">>))
          \ (TierGames(kb.popularity, "very_popular")
                \cup TierGames(kb.difficulty, "easy")) # {}

\* The additive rule, in tenths, read off the tables.
RuleScore(game, age, genres) ==
    LET rated == {i \in 1..Len(kb.age_ratings) : kb.age_ratings[i][1] = game}
        rating == IF rated = {} THEN DefaultAgeRating
                  ELSE kb.age_ratings[CHOOSE i \in rated : TRUE][2]
        sum == (IF rating <= age THEN 3 ELSE 0)
               + (IF game \in GenreOk(genres) THEN 4 ELSE 0)
               + (IF game \in TierGames(kb.popularity, "very_popular") THEN 2
                  ELSE IF game \in TierGames(kb.popularity, "popular") THEN 1
                  ELSE 0)
               + (IF \/ age < 16 /\ game \in TierGames(kb.difficulty, "easy")
                     \/ age >= 16 /\ game \in TierGames(kb.difficulty, "medium")
                  THEN 1 ELSE 0)
    IN IF sum > 10 THEN 10 ELSE sum

\* C18: the relevance score of a game for an age and a genre list is
\* min(1.0, s), s the sum of 0.3 (rating <= age), 0.4 (genre preferred), 0.2
\* (very popular) or else 0.1 (popular), and 0.1 (easy below 16, medium from
\* 16 on); so is every score in a ranked list.
C18_AdditiveScore ==
    /\ op = "calculate_relevance_score" =>
          ret = RuleScore(args.game, args.age, args.preferred_genres)
    /\ op = "get_recommendations" =>
          \A i \in RecIndices :
              Recs[i].relevance_score =
                  RuleScore(Recs[i].name, args.age, args.preferred_genres)

\* C18 witness: a game rated above the age, of a preferred genre, popular and
\* of the difficulty that fits the age has been scored 0.6, without the age
\* part.
C18_Witness ==
    /\ op = "calculate_relevance_score"
    /\ get_game_age_rating(args.game) > args.age
    /\ in_list(get_game_genre(args.game), args.preferred_genres)
    /\ ret = 6

\* The recommender has been invoked for the current line.
EngineCalled == op \in {"get_recommendations", "get_alternative_recommendations"}

\* C14: in the session loop a line whose parse result is not valid goes back
\* to the input prompt (by `continue`, or through the error handler) without
\* a call of the recommender; so the recommender is only ever called with an
\* age of 3..100 and a non-empty genre list.
C14_InvalidNeverRecommended ==
    /\ [](EngineCalled =>
            /\ validated_data.is_valid
            /\ args.age \in MinValidAge..MaxValidAge
            /\ validated_data.genres # <<>>
            /\ op = "get_recommendations" =>
                  args.preferred_genres = validated_data.genres
            /\ op = "get_alternative_recommendations" =>
                  args.excluded_genres = {Range(validated_data.genres)})
    /\ [][(pc = "check" /\ ~validated_data.is_valid) =>
            (pc' \in {"prompt", "except"} /\ ~EngineCalled')]_vars

\* C14 witness: a line with an age and no genre has been parsed and found
\* invalid; the recommender has not been called for it.
C14_Witness ==
    /\ pc = "check"
    /\ validated_data.age = {13}
    /\ validated_data.genres = <<>>
    /\ ~validated_data.is_valid
    /\ ~EngineCalled

\* C15 (as stated): the loop ends only by the exit keyword or a declined
\* continuation (an input stream closed at the main prompt aside), never
\* after an exception raised while a line is handled or a follow-up prompt is
\* asked; and the process ends with status 1 only for an exception of the
\* constructor.
C15_OnlyConstructionEnds ==
    exited # <<>> =>
        \/ exited \in {<<0, "exit_keyword">>, <<0, "declined">>,
                       <<0, "input_closed">>}
        \/ exited = <<1, "construct">>

\* C15 (amended): an Exception that reaches the handler of the loop is
\* reported and followed by the input prompt, unless the handler itself
\* raises.  KeyboardInterrupt and EOFError at a prompt never reach it: at the
\* main prompt they end the process with status 0, at the alternatives prompt
\* they count as a no, at the continuation prompt they count as a no and end
\* the loop with status 0.  Status 1 follows an exception of the constructor,
\* of the welcome output before the loop, or of the handler.
C15_HandlerReprompts ==
    /\ [](/\ exited # <<>> =>
                exited \in {<<0, "exit_keyword">>, <<0, "declined">>,
                            <<0, "input_closed">>, <<0, "continuation_closed">>,
                            <<1, "construct">>, <<1, "welcome">>, <<1, "handler">>}
          /\ (pc = "except" /\ exited = <<>>) => raised \in TrySteps)
    /\ [][(pc = "except" /\ exited = <<>>) =>
            \/ pc' = "prompt" /\ exited' = <<>> /\ raised' = ""
            \/ exited' = <<1, "handler">>]_vars

\* C15 witness: displaying the recommendations has raised and the handler of
\* the loop has the exception.
C15_Witness ==
    /\ pc = "except"
    /\ raised = "display"
    /\ op = "get_recommendations"
    /\ exited = <<>>

\* The stripped line is one of the exit keywords, in any letter case.
IsExitLine(typed) ==
    Len(typed) = 1 /\ in_list(lower_word(typed[1]), ExitKeywords)

\* C16: an exit keyword typed at the main prompt, in any letter case, ends
\* the loop (status 0) and is passed neither to the parser nor to the
\* recommender; an empty line is asked for again, so the parser only gets
\* non-empty lines that are not exit keywords.
C16_ExitKeywordEndsLoop ==
    /\ IsExitLine(line) =>
          (pc = "exited" /\ exited = <<0, "exit_keyword">> /\ op = "idle")
    /\ exited = <<0, "exit_keyword">> => IsExitLine(line)
    /\ pc \in {"parse", "check", "display", "ask_alternatives", "alternatives",
               "ask_continuation"} => (line # <<>> /\ ~IsExitLine(line))
    /\ op = "parse_and_validate_input" =>
          (args.user_input = line /\ line # <<>> /\ ~IsExitLine(line))

\* C16 witness: the localized keyword typed in capitals has ended the loop.
C16_Witness ==
    /\ pc = "exited"
    /\ line = <<"VYHOD">>
    /\ exited = <<0, "exit_keyword">>
    /\ op = "idle"

\* The genre list an engine call ranks against: the preferred genres, or for
\* an alternative call the catalog genres that were not excluded.
EngineGenres ==
    IF op = "get_recommendations" THEN args.preferred_genres
    ELSE ComplementGenres(ExcludedOf(args))

\* C21: the score separates the two pools.  A game returned from a non-empty
\* primary intersection scores at least 0.7; a game returned from the
\* fallback scores from 0.3 to 0.6, being age-eligible and of no preferred
\* genre.
C21_ScoreSeparatesPools ==
    EngineCalled =>
        LET primary == AgeOk(args.age) \cap GenreOk(EngineGenres)
        IN \A i \in RecIndices :
              IF primary # {}
              THEN Recs[i].relevance_score >= 7
              ELSE /\ Recs[i].relevance_score >= 3
                   /\ Recs[i].relevance_score <= 6
                   /\ Recs[i].name \in AgeOk(args.age)
                   /\ ~in_list(Recs[i].genre, EngineGenres)

\* C21 witness: a fallback list, asked with a genre, holds a game at the top
\* of the fallback range, 0.6.
C21_Witness ==
    /\ op = "get_recommendations"
    /\ args.preferred_genres # <<>>
    /\ AgeOk(args.age) \cap GenreOk(args.preferred_genres) = {}
    /\ \E i \in RecIndices : Recs[i].relevance_score = 6

\* The games the genre table lists, and the games the age-rating table rates.
GenreTableGames == UNION {Range(kb.genres[i][2]) : i \in 1..Len(kb.genres)}

RatedGames == {kb.age_ratings[i][1] : i \in 1..Len(kb.age_ratings)}

\* The games only the difficulty, popularity or platform table names.
OtherTablesOnly ==
    (UNION {Range(kb.difficulty[i][2]) : i \in 1..Len(kb.difficulty)}
        \cup UNION {Range(kb.popularity[i][2]) : i \in 1..Len(kb.popularity)}
        \cup UNION {Range(kb.platforms[i][2]) : i \in 1..Len(kb.platforms)})
    \ (GenreTableGames \cup RatedGames)

\* C22: every entry of a returned list names a game of both the genre table
\* and the age-rating table; its genre is the catalog genre that lists it
\* (never None), its age_rating is its own table entry (never the default of
\* an unlisted game), no name occurs twice, and a game only the difficulty,
\* popularity or platform table names is never returned.
C22_EntriesAreCatalogGames ==
    EngineCalled =>
        /\ \A i \in RecIndices :
              /\ Recs[i].name \in GenreTableGames \cap RatedGames
              /\ Recs[i].genre # None
              /\ \E g \in 1..Len(kb.genres) :
                    /\ kb.genres[g][1] = Recs[i].genre
                    /\ in_list(Recs[i].name, kb.genres[g][2])
              /\ \E a \in 1..Len(kb.age_ratings) :
                    kb.age_ratings[a] = <<Recs[i].name, Recs[i].age_rating>>
        /\ \A i, j \in RecIndices : Recs[i].name = Recs[j].name => i = j
        /\ RecNames \cap OtherTablesOnly = {}

\* C22 witness: a fallback for an adult has returned very popular games, and
\* Minecraft, very popular but in no genre or rating list, is not among them.
C22_Witness ==
    /\ op = "get_recommendations"
    /\ args.age = 18
    /\ AgeOk(args.age) \cap GenreOk(args.preferred_genres) = {}
    /\ Len(Recs) > 0
    /\ "Minecraft" \in TierGames(kb.popularity, "very_popular") \cap OtherTablesOnly
    /\ "Dark Souls" \in OtherTablesOnly
    /\ "Minecraft" \notin RecNames

\* C23: with the shipped catalog get_recommendations(age, G) returns a
\* non-empty list for every age of 3 or more, whatever G (the empty list and
\* unknown genres too), and an empty list with total_found = 0 below 3.
C23_NonEmptyFromThree ==
    op = "get_recommendations" =>
        /\ args.age >= 3 => (Len(Recs) > 0 /\ ret.total_found = Len(Recs))
        /\ args.age < 3 => (Recs = <<>> /\ ret.total_found = 0)

\* C23 witness: a player of 16 asking for a genre the catalog does not know
\* has got a non-empty list.
C23_Witness ==
    /\ op = "get_recommendations"
    /\ args.age = 16
    /\ args.preferred_genres = <<"UnknownGenre">>
    /\ GenreOk(args.preferred_genres) = {}
    /\ Len(Recs) > 0
    /\ ret.total_found = Len(Recs)

====
